---- MODULE Spec2Model ----
\* State-machine model of the AI service worker:
\*   src/src/ai-service/task_consumer.py  (class TaskConsumer)
\*   src/src/ai-service/main.py           (service host: startup, shutdown, /health)
\*
\* Two threads share the TaskConsumer object: the consumer thread runs start()
\* (connect with retries, then the blocking consuming loop that dispatches each
\* delivery to process_message) and the host thread runs shutdown_event -> stop()
\* and serves /health.  The broker (queue task_created) and the task table are
\* the environment.
EXTENDS Integers, Sequences, FiniteSets, TLC

\* ---------------------------------------------------------------- bounds
MaxDeliveries == 2    \* deliveries the broker makes in one run
MaxCalls == 2         \* direct calls of update_task_in_db in one run
MaxStops == 1         \* calls of stop() made by the host (shutdown_event)

\* ------------------------------------------------------ program constants
max_retries == 5
retry_delay == 5

None == "None"

VARIABLES
    \* --- service host (main.py)
    consumer,       \* the global `consumer` is set (not None)
    spc,            \* position of the host thread inside stop()
    stops,          \* number of stop() calls begun
    stopRaised,     \* a stop() call ended by raising
    \* --- TaskConsumer fields
    is_running,
    connection,     \* self.connection: "None", or the state of the object it names
    channel,        \* self.channel: "None", or the state of the object it names
    \* --- consumer thread inside start() / connect_rabbitmq()
    pc,
    attempt,        \* loop variable of `for attempt in range(max_retries)`
    tries,          \* connection attempts begun
    sleeps,         \* time.sleep(retry_delay) calls made
    connectResult,  \* "none" while connecting, then "ready" or "exhausted"
    \* --- broker client objects
    leaked,         \* open connections that self.connection no longer names
    declared,       \* how queue task_created was declared: "no", "durable", "transient"
    qos,            \* prefetch_count set on the channel (0: never set)
    registered,     \* process_message is registered as consumer on self.channel
    \* --- broker queue
    ready,          \* messages ready in the queue (a message is named by its body)
    unacked,        \* delivery tags delivered and not settled
    buffer,         \* deliveries received by the client, not yet dispatched
    dlv,            \* one record per delivery, indexed by delivery tag: its body,
                    \* where its handling stands, what update_task_in_db returned,
                    \* and the basic_ack / basic_nack calls made with its tag
    \* --- handler (process_message)
    hpc,
    cur,            \* delivery tag being handled
    consumeEnd,     \* how start_consuming() ended: "none", "returned", "error",
                    \* "handler" (an exception process_message let through),
                    \* "interrupt" (KeyboardInterrupt)
    \* --- task table
    tasks,
    now,            \* the store's clock (datetime.utcnow()), a logical time
    \* --- direct calls of analyze_task and update_task_in_db
    args,           \* the arguments drawn for the call
    results         \* the results of the calls made so far

hostVars == <<consumer, spc, stops, stopRaised>>
connVars == <<attempt, tries, sleeps, connectResult>>
clientVars == <<leaked, declared>>
brokerVars == <<ready, unacked, buffer, dlv, qos, registered>>
handlerVars == <<hpc, cur, consumeEnd>>
consumerVars == <<consumer, spc, stops, stopRaised, is_running, connection,
                  channel, pc, attempt, tries, sleeps, connectResult, leaked,
                  declared, qos, registered, ready, unacked, buffer, dlv, hpc,
                  cur, consumeEnd>>
storeVars == <<tasks, now>>
callVars == <<args, results>>
vars == <<consumer, spc, stops, stopRaised, is_running, connection, channel, pc,
          attempt, tries, sleeps, connectResult, leaked, declared, qos,
          registered, ready, unacked, buffer, dlv, hpc,
          cur, consumeEnd, tasks, now, args, results>>

\* ------------------------------------------------------------ message bodies
\* "task"        {"task_id": "t1", "title": "Urgent report", "description": "good"}
\* "no_task_id"  {"title": "Buy milk"}
\* "not_json"    text that is no JSON document
\* "json_list"   [1]   (valid JSON, not an object)
Bodies == {"task", "no_task_id", "not_json", "json_list"}
TaskIds == {"t1", "t2"}

\* json.loads(body): the parsed value, or a raise.
json_loads(b) ==
    CASE b = "task" ->
           [kind |-> "dict",
            val |-> [task_id |-> "t1",
                     title |-> <<"U","r","g","e","n","t"," ","r","e","p","o","r","t">>,
                     description |-> <<"g","o","o","d">>]]
      [] b = "no_task_id" ->
           [kind |-> "dict",
            val |-> [title |-> <<"B","u","y"," ","m","i","l","k">>]]
      [] b = "json_list" -> [kind |-> "list", val |-> <<1>>]
      [] OTHER -> [kind |-> "raise", val |-> <<>>]

\* dict.get(key, default)
DictGet(d, key, default) == IF key \in DOMAIN d THEN d[key] ELSE default

\* ------------------------------------------------------------- classifier
\* Text is a sequence of one-character strings.
UpperCase == <<"A","B","C","D","E","F","G","H","I","J","K","L","M",
               "N","O","P","Q","R","S","T","U","V","W","X","Y","Z">>
LowerCase == <<"a","b","c","d","e","f","g","h","i","j","k","l","m",
               "n","o","p","q","r","s","t","u","v","w","x","y","z">>

\* str.lower(), character by character
lower_char(c) ==
    IF \E i \in 1..26 : UpperCase[i] = c
    THEN LowerCase[CHOOSE i \in 1..26 : UpperCase[i] = c]
    ELSE c
lower(text) == [i \in 1..Len(text) |-> lower_char(text[i])]

\* `keyword in text_lower`: substring containment
Contains(text, kw) ==
    \E i \in 1..(Len(text) - Len(kw) + 1) : SubSeq(text, i, i + Len(kw) - 1) = kw

work_keywords ==
    { <<"w","o","r","k">>,
      <<"m","e","e","t","i","n","g">>,
      <<"p","r","o","j","e","c","t">>,
      <<"d","e","a","d","l","i","n","e">>,
      <<"r","e","p","o","r","t">>,
      <<"e","m","a","i","l">>,
      <<"c","l","i","e","n","t">>,
      <<"b","u","s","i","n","e","s","s">> }
personal_keywords ==
    { <<"h","o","m","e">>,
      <<"f","a","m","i","l","y">>,
      <<"p","e","r","s","o","n","a","l">>,
      <<"b","u","y">>,
      <<"s","h","o","p","p","i","n","g">>,
      <<"h","e","a","l","t","h">>,
      <<"e","x","e","r","c","i","s","e">>,
      <<"d","o","c","t","o","r">> }
urgent_keywords ==
    { <<"u","r","g","e","n","t">>,
      <<"a","s","a","p">>,
      <<"i","m","p","o","r","t","a","n","t">>,
      <<"c","r","i","t","i","c","a","l">>,
      <<"e","m","e","r","g","e","n","c","y">>,
      <<"i","m","m","e","d","i","a","t","e","l","y">>,
      <<"p","r","i","o","r","i","t","y">> }

\* TextBlob(text).sentiment.polarity, in hundredths: the lexicon scores of the
\* words the texts of this model use ("good" 0.7, "bad" -0.7, anything else 0).
polarity(text) ==
    IF Contains(lower(text), <<"g","o","o","d">>) THEN 70
    ELSE IF Contains(lower(text), <<"b","a","d">>) THEN 0 - 70
    ELSE 0

sentiment_of_closed(p) ==
    IF p >= 10 THEN "positive"
    ELSE IF p <= 0 - 10 THEN "negative"
    ELSE "neutral"

sentiment_of(p) ==
    IF p > 10 THEN "positive"
    ELSE IF p < 0 - 10 THEN "negative"
    ELSE "neutral"

category_of_work_first(text_lower) ==
    IF \E k \in work_keywords : Contains(text_lower, k) THEN "work"
    ELSE IF \E k \in urgent_keywords : Contains(text_lower, k) THEN "urgent"
    ELSE IF \E k \in personal_keywords : Contains(text_lower, k) THEN "personal"
    ELSE "general"

category_of(text_lower) ==
    IF \E k \in urgent_keywords : Contains(text_lower, k) THEN "urgent"
    ELSE IF \E k \in work_keywords : Contains(text_lower, k) THEN "work"
    ELSE IF \E k \in personal_keywords : Contains(text_lower, k) THEN "personal"
    ELSE "general"

\* analyze_task(title, description) -> (category, sentiment)
analyze_task(title, description) ==
    LET text == title \o <<".", " ">> \o description
    IN  <<category_of(lower(text)), sentiment_of(polarity(text))>>

\* --------------------------------------------------------- persistence
\* (variant: the UPDATE has no WHERE clause)
db_update_all(t, task_id, category, sentiment, ts) ==
    [r \in DOMAIN t |->
        [ai_category |-> category, ai_sentiment |-> sentiment, ai_analyzed_at |-> ts]]

\* The UPDATE ... WHERE id = task_id, committed: rows with that id get the
\* labels and the time of the write; no row matches None (id = NULL) or an
\* unknown id.
db_update(t, task_id, category, sentiment, ts) ==
    [r \in DOMAIN t |->
        IF r = task_id
        THEN [ai_category |-> category, ai_sentiment |-> sentiment,
              ai_analyzed_at |-> ts]
        ELSE t[r]]

\* Where a call of update_task_in_db can fail: psycopg2.connect (with the
\* connection parameters resolved for it), cursor.execute, conn.commit,
\* cursor.close / conn.close; or nowhere.
DbFailPoints == {"none", "connect", "execute", "commit", "close"}

\* (variant: no try/except around the body, an error is raised to the caller)
update_task_in_db_unguarded(t, task_id, category, sentiment, ts, fail) ==
    [ret |-> TRUE,
     raised |-> fail # "none",
     table |-> IF fail \in {"none", "close"}
               THEN db_update(t, task_id, category, sentiment, ts) ELSE t,
     opened |-> IF fail = "connect" THEN 0 ELSE 1,
     closed |-> IF fail = "none" THEN 1 ELSE 0]

\* update_task_in_db(task_id, category, sentiment) on table t at time ts, with
\* the first error at `fail`: what it returns, whether it raised, the table it
\* leaves, and the store connections it opened and closed.  The except clause
\* turns every error into `return False`; conn.close() is reached only when
\* nothing failed before it.
update_task_in_db(t, task_id, category, sentiment, ts, fail) ==
    [ret |-> fail = "none",
     raised |-> FALSE,
     table |-> IF fail \in {"none", "close"}
               THEN db_update(t, task_id, category, sentiment, ts) ELSE t,
     opened |-> IF fail = "connect" THEN 0 ELSE 1,
     closed |-> IF fail = "none" THEN 1 ELSE 0]

\* a row the worker has not written yet
NotAnalysed == [ai_category |-> None, ai_sentiment |-> None, ai_analyzed_at |-> 0]

\* ------------------------------------------------------------------ Init
\* The state after the module is loaded: no consumer object yet; once built
\* (__init__) it is not running and holds no connection or channel.  The queue
\* holds one message of each kind, published by the producers.
Idle ==
    /\ consumer = FALSE
    /\ spc = "idle"
    /\ stops = 0
    /\ stopRaised = FALSE
    /\ is_running = FALSE
    /\ connection = None
    /\ channel = None
    /\ pc = "new"
    /\ attempt = 0
    /\ tries = 0
    /\ sleeps = 0
    /\ connectResult = "none"
    /\ leaked = 0
    /\ declared = "no"
    /\ qos = 0
    /\ registered = FALSE
    /\ ready = Bodies
    /\ unacked = {}
    /\ buffer = <<>>
    /\ dlv = <<>>
    /\ hpc = "idle"
    /\ cur = 0
    /\ consumeEnd = "none"

Init ==
    /\ Idle
    /\ tasks = [r \in TaskIds |-> NotAnalysed]
    /\ now = 1
    /\ args = <<>>
    /\ results = <<>>

\* --------------------------------------------------------- service host
\* startup_event: builds the consumer and starts its thread on start().
Startup ==
    /\ ~consumer
    /\ pc = "new"
    /\ consumer' = TRUE
    /\ pc' = "c_open"
    /\ UNCHANGED <<spc, stops, stopRaised, is_running, connection, channel>>
    /\ UNCHANGED <<connVars, clientVars, brokerVars, handlerVars, storeVars, callVars>>

\* GET /health: the consumer_running field of the answer.
health_check == IF consumer THEN (consumer /\ is_running) ELSE FALSE

\* ------------------------------------------------------ connect_rabbitmq
\* (variant: sleeps after the last attempt too)
ShouldSleep_always(a) == a < max_retries

\* `if attempt < max_retries - 1: time.sleep(retry_delay)`
ShouldSleep(a) == a < max_retries - 1

\* (variant: start() goes on whatever connect_rabbitmq() returned)
StartAborts_never(connected) == FALSE

\* `if not self.connect_rabbitmq(): return`
StartAborts(connected) == ~connected

\* What start() does once connect_rabbitmq() has returned `connected`.
AfterConnect(connected) == IF StartAborts(connected) THEN "done" ELSE "set_running"

\* The except clause of an attempt and the loop's step to the next attempt, or
\* `return False` after the last one.
AttemptFailed ==
    /\ sleeps' = IF ShouldSleep(attempt) THEN sleeps + 1 ELSE sleeps
    /\ attempt' = attempt + 1
    /\ IF attempt + 1 < max_retries
       THEN /\ pc' = "c_open"
            /\ connectResult' = connectResult
       ELSE /\ pc' = AfterConnect(FALSE)
            /\ connectResult' = "exhausted"

\* pika.BlockingConnection(parameters); self.connection is assigned on success
\* and the connection it named before, if still open, stays open unreferenced.
ConnOpen(ok) ==
    /\ pc = "c_open"
    /\ tries' = tries + 1
    /\ IF ok
       THEN /\ leaked' = IF connection = "open" THEN leaked + 1 ELSE leaked
            /\ connection' = "open"
            /\ pc' = "c_channel"
            /\ UNCHANGED <<attempt, sleeps, connectResult>>
       ELSE /\ AttemptFailed
            /\ UNCHANGED <<leaked, connection>>
    /\ UNCHANGED <<hostVars, is_running, channel, declared>>
    /\ UNCHANGED <<brokerVars, handlerVars, storeVars, callVars>>

\* self.channel = self.connection.channel(); raises on a closed connection.
\* (Every channel an earlier attempt left in self.channel is closed by then.)
ConnChannel(ok) ==
    /\ pc = "c_channel"
    /\ IF ok /\ connection = "open"
       THEN /\ channel' = "open"
            /\ pc' = "c_declare"
            /\ UNCHANGED <<attempt, sleeps, connectResult>>
       ELSE /\ AttemptFailed
            /\ UNCHANGED channel
    /\ UNCHANGED <<hostVars, is_running, connection, tries, clientVars>>
    /\ UNCHANGED <<brokerVars, handlerVars, storeVars, callVars>>

\* (variant: the queue is declared without durable)
queue_transient == FALSE

\* the durable argument of queue_declare
queue_durable == TRUE

\* self.channel.queue_declare(queue='task_created', durable=True); `return True`
\* on success.  A refused declare closes the channel, not the connection.
ConnDeclare(ok) ==
    /\ pc = "c_declare"
    /\ IF ok /\ channel = "open"
       THEN /\ declared' = IF queue_durable THEN "durable" ELSE "transient"
            /\ connectResult' = "ready"
            /\ pc' = AfterConnect(TRUE)
            /\ UNCHANGED <<attempt, sleeps, channel>>
       ELSE /\ AttemptFailed
            /\ channel' = "closed"
            /\ UNCHANGED declared
    /\ UNCHANGED <<hostVars, is_running, connection, tries, leaked>>
    /\ UNCHANGED <<brokerVars, handlerVars, storeVars, callVars>>

\* ---------------------------------------------------------------- start()
\* self.is_running = True.  connect_rabbitmq has returned: its locals are gone.
SetRunning ==
    /\ pc = "set_running"
    /\ is_running' = TRUE
    /\ pc' = "qos"
    /\ attempt' = 0
    /\ tries' = 0
    /\ sleeps' = 0
    /\ UNCHANGED <<hostVars, connection, channel, connectResult, clientVars>>
    /\ UNCHANGED <<brokerVars, handlerVars, storeVars, callVars>>

\* (variant: a prefetch window of two)
prefetch_count_two == 1 + 1

\* the argument of basic_qos
prefetch_count == 1

\* self.channel.basic_qos(prefetch_count=1).  On a missing or closed channel the
\* call raises; the call is outside the try of start(), so start() ends there.
SetQos ==
    /\ pc = "qos"
    /\ IF channel = "open"
       THEN qos' = prefetch_count /\ pc' = "consume"
       ELSE qos' = qos /\ pc' = "crashed"
    /\ UNCHANGED <<hostVars, is_running, connection, channel, connVars, clientVars>>
    /\ UNCHANGED <<ready, unacked, buffer, dlv, registered, handlerVars, storeVars, callVars>>

\* self.channel.basic_consume(queue, on_message_callback=self.process_message)
Consume ==
    /\ pc = "consume"
    /\ IF channel = "open"
       THEN registered' = TRUE /\ pc' = "consuming"
       ELSE registered' = registered /\ pc' = "crashed"
    /\ UNCHANGED <<hostVars, is_running, connection, channel, connVars, clientVars>>
    /\ UNCHANGED <<ready, unacked, buffer, dlv, qos, handlerVars, storeVars, callVars>>

\* ----------------------------------------------------------------- broker
\* The broker pushes a ready message to the registered consumer while the
\* channel's prefetch window has room (0: no limit was set).
Deliver(m) ==
    /\ registered
    /\ channel = "open"
    /\ m \in ready
    /\ Len(dlv) < MaxDeliveries
    /\ qos = 0 \/ Cardinality(unacked) < qos
    /\ ready' = ready \ {m}
    /\ dlv' = Append(dlv, [body |-> m, st |-> "received", res |-> "none",
                           acks |-> 0, ackErr |-> FALSE,
                           nacks |-> 0, nackErr |-> FALSE, requeue |-> FALSE])
    /\ unacked' = unacked \cup {Len(dlv) + 1}
    /\ buffer' = Append(buffer, Len(dlv) + 1)
    /\ UNCHANGED <<hostVars, is_running, connection, channel, pc, connVars, clientVars>>
    /\ UNCHANGED <<qos, registered, handlerVars, storeVars, callVars>>

\* A closed channel returns its unsettled deliveries to the queue.
Requeued == {dlv[t].body : t \in unacked}

\* The broker closes the consumer's channel (a channel-level error such as the
\* queue being deleted or a delivery acknowledgement timeout); the connection
\* stays open.
BrokerClosesChannel ==
    /\ registered
    /\ channel = "open"
    /\ channel' = "closed"
    /\ registered' = FALSE
    /\ ready' = ready \cup Requeued
    /\ unacked' = {}
    /\ buffer' = <<>>
    /\ UNCHANGED <<hostVars, is_running, connection, pc, connVars, clientVars>>
    /\ UNCHANGED <<dlv, qos, handlerVars, storeVars, callVars>>

\* ------------------------------------------------------ start_consuming()
\* The blocking loop hands the next received delivery to process_message; the
\* callback runs on the loop's thread, so only when no callback is running.
Dispatch ==
    /\ pc = "consuming"
    /\ hpc = "idle"
    /\ buffer # <<>>
    /\ cur' = Head(buffer)
    /\ buffer' = Tail(buffer)
    /\ hpc' = "run"
    /\ dlv' = [dlv EXCEPT ![Head(buffer)].st = "running"]
    /\ UNCHANGED <<hostVars, is_running, connection, channel, pc, connVars, clientVars>>
    /\ UNCHANGED <<ready, unacked, qos, registered, consumeEnd, storeVars, callVars>>

\* start_consuming() returns once stop_consuming() has cancelled its consumer
\* (or stop() has closed the connection under it: then it returns or raises).
\* After a channel close by the broker it raises, see ConsumeError.
ConsumeReturn ==
    /\ pc = "consuming"
    /\ hpc = "idle"
    /\ ~registered
    /\ channel = "open" \/ connection = "closed"
    /\ pc' = "done"
    /\ consumeEnd' = "returned"
    /\ UNCHANGED <<hostVars, is_running, connection, channel, connVars, clientVars>>
    /\ UNCHANGED <<brokerVars, hpc, cur, storeVars, callVars>>

\* start_consuming() raises when its channel was closed under it:
\* `except Exception: self.is_running = False`.
ConsumeError ==
    /\ pc = "consuming"
    /\ hpc = "idle"
    /\ channel # "open"
    /\ is_running' = FALSE
    /\ pc' = "done"
    /\ consumeEnd' = "error"
    /\ UNCHANGED <<hostVars, connection, channel, connVars, clientVars>>
    /\ UNCHANGED <<brokerVars, hpc, cur, storeVars, callVars>>

\* ------------------------------------------------------- process_message
\* (variant: a successful update leads to the nack)
AfterUpdate_inverted(updated) == IF updated THEN "nack" ELSE "ack"

\* After update_task_in_db(...) returned `updated`: the return value is not
\* looked at, the next statement is ch.basic_ack.
AfterUpdate(updated) == "ack"

\* `except Exception as e:` leads to ch.basic_nack
OnException == "nack"

\* (variant: the nack drops the message)
nack_requeue_off == FALSE

\* the requeue argument of basic_nack
nack_requeue == TRUE

\* message.get(...) needs a dict: json.loads raising, or a parsed value with no
\* .get (a list), raises inside the try.
LoadRaises(b) == json_loads(b).kind # "dict"

\* Lines 146-152, for each body that deserializes to a dict: title and
\* description with their defaults, then analyze_task(title, description).
message_labels ==
    [b \in {m \in Bodies : ~LoadRaises(m)} |->
        LET message == json_loads(b).val
            title == DictGet(message, "title", <<>>)
            description == DictGet(message, "description", <<>>)
        IN  analyze_task(title, description)]

\* Lines 144-155: deserialize, extract, classify, update the task row.
Handle(fail) ==
    /\ hpc = "run"
    /\ IF LoadRaises(dlv[cur].body)
       THEN /\ hpc' = OnException
            /\ UNCHANGED <<tasks, now, dlv>>
       ELSE LET message == json_loads(dlv[cur].body).val
                task_id == DictGet(message, "task_id", None)
                labels == message_labels[dlv[cur].body]
                upd == update_task_in_db(tasks, task_id, labels[1], labels[2], now, fail)
            IN  /\ tasks' = upd.table
                /\ now' = now + 1
                /\ dlv' = [dlv EXCEPT ![cur].res = IF upd.ret THEN "ok" ELSE "fail"]
                /\ hpc' = AfterUpdate(upd.ret)
    /\ UNCHANGED <<hostVars, is_running, connection, channel, pc, connVars, clientVars>>
    /\ UNCHANGED <<ready, unacked, buffer, qos, registered, cur, consumeEnd, callVars>>

\* ch.basic_ack(delivery_tag=method.delivery_tag), ch being self.channel, the
\* only channel a consumer is ever registered on: the broker drops the message
\* and process_message returns; on a closed channel the call raises inside the
\* try.
Ack ==
    /\ hpc = "ack"
    /\ IF channel = "open"
       THEN /\ unacked' = unacked \ {cur}
            /\ dlv' = [dlv EXCEPT ![cur].acks = @ + 1, ![cur].st = "returned"]
            /\ hpc' = "idle"
       ELSE /\ dlv' = [dlv EXCEPT ![cur].acks = @ + 1, ![cur].ackErr = TRUE]
            /\ hpc' = OnException
            /\ UNCHANGED unacked
    /\ UNCHANGED <<hostVars, is_running, connection, channel, pc, connVars, clientVars>>
    /\ UNCHANGED <<ready, buffer, qos, registered, cur, consumeEnd, storeVars, callVars>>

\* ch.basic_nack(delivery_tag=method.delivery_tag, requeue=True): the broker
\* puts the message back and process_message returns.  On a closed channel the
\* call raises inside the except clause, so the exception leaves
\* process_message and start_consuming and reaches `except Exception` of
\* start(): self.is_running = False.
Nack ==
    /\ hpc = "nack"
    /\ hpc' = "idle"
    /\ IF channel = "open"
       THEN /\ unacked' = unacked \ {cur}
            /\ ready' = IF nack_requeue THEN ready \cup {dlv[cur].body} ELSE ready
            /\ dlv' = [dlv EXCEPT ![cur].nacks = @ + 1, ![cur].requeue = nack_requeue,
                                  ![cur].st = "returned"]
            /\ UNCHANGED <<is_running, pc, consumeEnd>>
       ELSE /\ dlv' = [dlv EXCEPT ![cur].nacks = @ + 1, ![cur].requeue = nack_requeue,
                                  ![cur].nackErr = TRUE, ![cur].st = "raised"]
            /\ is_running' = FALSE
            /\ pc' = "done"
            /\ consumeEnd' = "handler"
            /\ UNCHANGED <<unacked, ready>>
    /\ UNCHANGED <<hostVars, connection, channel, connVars, clientVars>>
    /\ UNCHANGED <<buffer, qos, registered, cur, storeVars, callVars>>

\* ------------------------------------------------------------------ stop()
\* shutdown_event: `if consumer: consumer.stop()`; first statement of stop():
\* self.is_running = False
StopBegin ==
    /\ consumer
    /\ spc = "idle"
    /\ stops < MaxStops
    /\ stops' = stops + 1
    /\ is_running' = FALSE
    /\ spc' = "chan"
    /\ UNCHANGED <<consumer, stopRaised, connection, channel, pc, connVars, clientVars>>
    /\ UNCHANGED <<brokerVars, handlerVars, storeVars, callVars>>

\* `if self.channel: self.channel.stop_consuming()`: cancels the consumers of
\* that channel and drops what the client had buffered for them; nothing to
\* cancel on a channel that is closed or has no consumer.
StopChannel ==
    /\ spc = "chan"
    /\ spc' = "conn"
    /\ IF channel = "open" /\ registered
       THEN registered' = FALSE /\ buffer' = <<>>
       ELSE UNCHANGED <<registered, buffer>>
    /\ UNCHANGED <<consumer, stops, stopRaised, is_running, connection, channel, pc>>
    /\ UNCHANGED <<connVars, clientVars, ready, unacked, dlv, qos, handlerVars, storeVars, callVars>>

\* `if self.connection: self.connection.close()`: closes the connection and its
\* channel, and the broker requeues what was unsettled on it.  close() on a
\* connection that is already closed raises (ConnectionWrongStateError).
StopConnection ==
    /\ spc = "conn"
    /\ spc' = "idle"
    /\ IF connection = None
       THEN UNCHANGED <<stopRaised, connection, channel, registered, buffer, ready, unacked>>
       ELSE IF connection = "open"
       THEN /\ connection' = "closed"
            /\ channel' = IF channel = "open" THEN "closed" ELSE channel
            /\ ready' = ready \cup Requeued
            /\ unacked' = {}
            /\ buffer' = <<>>
            /\ registered' = FALSE
            /\ UNCHANGED stopRaised
       ELSE /\ stopRaised' = TRUE
            /\ UNCHANGED <<connection, channel, registered, buffer, ready, unacked>>
    /\ UNCHANGED <<consumer, stops, is_running, pc, connVars>>
    /\ UNCHANGED <<clientVars, dlv, qos, handlerVars, storeVars, callVars>>

\* ------------------------------------------- start(): KeyboardInterrupt
\* KeyboardInterrupt reaches start_consuming(), from the loop or from inside a
\* running process_message (whose `except Exception` does not catch it):
\* `except KeyboardInterrupt: self.stop()`, whose first statement is
\* self.is_running = False.
Interrupt ==
    /\ pc = "consuming"
    /\ pc' = "k_chan"
    /\ consumeEnd' = "interrupt"
    /\ is_running' = FALSE
    /\ hpc' = "idle"
    /\ dlv' = IF hpc = "idle" THEN dlv ELSE [dlv EXCEPT ![cur].st = "interrupted"]
    /\ UNCHANGED <<hostVars, connection, channel, connVars, clientVars>>
    /\ UNCHANGED <<ready, unacked, buffer, qos, registered, cur, storeVars, callVars>>

\* stop() on the consumer thread: `if self.channel: self.channel.stop_consuming()`
InterruptStopChannel ==
    /\ pc = "k_chan"
    /\ pc' = "k_conn"
    /\ IF channel = "open" /\ registered
       THEN registered' = FALSE /\ buffer' = <<>>
       ELSE UNCHANGED <<registered, buffer>>
    /\ UNCHANGED <<hostVars, is_running, connection, channel, connVars, clientVars>>
    /\ UNCHANGED <<ready, unacked, dlv, qos, handlerVars, storeVars, callVars>>

\* stop() on the consumer thread: `if self.connection: self.connection.close()`;
\* when close() raises, the exception leaves stop() and start().
InterruptStopConnection ==
    /\ pc = "k_conn"
    /\ IF connection = "open"
       THEN /\ connection' = "closed"
            /\ channel' = IF channel = "open" THEN "closed" ELSE channel
            /\ ready' = ready \cup Requeued
            /\ unacked' = {}
            /\ buffer' = <<>>
            /\ registered' = FALSE
            /\ pc' = "done"
            /\ UNCHANGED stopRaised
       ELSE /\ stopRaised' = TRUE
            /\ pc' = "crashed"
            /\ UNCHANGED <<connection, channel, registered, buffer, ready, unacked>>
    /\ UNCHANGED <<consumer, spc, stops, is_running, connVars>>
    /\ UNCHANGED <<clientVars, dlv, qos, handlerVars, storeVars, callVars>>

\* ------------------------------------------------------------------- Next
Next ==
    \/ Startup
    \/ \E ok \in BOOLEAN : ConnOpen(ok)
    \/ \E ok \in BOOLEAN : ConnChannel(ok)
    \/ \E ok \in BOOLEAN : ConnDeclare(ok)
    \/ SetRunning
    \/ SetQos
    \/ Consume
    \/ \E m \in Bodies : Deliver(m)
    \/ Dispatch
    \/ ConsumeReturn
    \/ ConsumeError
    \/ \E fail \in DbFailPoints : Handle(fail)
    \/ Ack
    \/ Nack
    \/ StopBegin
    \/ StopChannel
    \/ StopConnection
    \/ BrokerClosesChannel
    \/ Interrupt
    \/ InterruptStopChannel
    \/ InterruptStopConnection

Spec == Init /\ [][Next]_vars

\* ------------------------------------------- a consumer that is never stopped
\* The broker delivers without end.  The model keeps the records of the last
\* MaxDeliveries deliveries: when that many are on record and the oldest is
\* settled, its record is forgotten and the later ones move down by one.
Redeliver(m) ==
    /\ registered
    /\ channel = "open"
    /\ m \in ready
    /\ Len(dlv) = MaxDeliveries
    /\ 1 \notin unacked
    /\ dlv[1].st \in {"returned", "raised"}
    /\ qos = 0 \/ Cardinality(unacked) < qos
    /\ ready' = ready \ {m}
    /\ dlv' = Append(Tail(dlv), [body |-> m, st |-> "received", res |-> "none",
                                 acks |-> 0, ackErr |-> FALSE,
                                 nacks |-> 0, nackErr |-> FALSE, requeue |-> FALSE])
    /\ unacked' = {t - 1 : t \in unacked} \cup {MaxDeliveries}
    /\ buffer' = Append([i \in 1..Len(buffer) |-> buffer[i] - 1], MaxDeliveries)
    /\ cur' = IF cur > 1 THEN cur - 1 ELSE 0
    /\ UNCHANGED <<hostVars, is_running, connection, channel, pc, connVars, clientVars>>
    /\ UNCHANGED <<qos, registered, hpc, consumeEnd, storeVars, callVars>>

\* start() on its thread and the broker; stop() is never called, nothing
\* interrupts the loop and the broker keeps the channel open.
LiveNext ==
    \/ Startup
    \/ \E ok \in BOOLEAN : ConnOpen(ok)
    \/ \E ok \in BOOLEAN : ConnChannel(ok)
    \/ \E ok \in BOOLEAN : ConnDeclare(ok)
    \/ SetRunning
    \/ SetQos
    \/ Consume
    \/ \E m \in Bodies : Deliver(m)
    \/ \E m \in Bodies : Redeliver(m)
    \/ Dispatch
    \/ \E fail \in DbFailPoints : Handle(fail)
    \/ Ack
    \/ Nack

\* The consumer thread keeps running (start_consuming blocks and dispatches,
\* process_message runs to its end), and the broker is fair to every message:
\* one that is ready again and again is delivered.
LiveFairness ==
    /\ WF_vars(Dispatch \/ (\E fail \in DbFailPoints : Handle(fail)) \/ Ack \/ Nack)
    /\ \A m \in Bodies : SF_vars(Deliver(m) \/ Redeliver(m))

LiveSpec == Init /\ [][LiveNext]_vars /\ LiveFairness

\* ------------------------------------------- update_task_in_db, called directly
\* Arguments of the direct calls: the ids of the two rows, an id no row has,
\* and None (what message.get('task_id') gives for a message without one).
CallIds == TaskIds \cup {"t9", None}
CallLabels == {<<"urgent", "positive">>, <<"general", "neutral">>}

\* Tables the calls start from: each row not analysed yet, or analysed before.
StoreTables ==
    [TaskIds -> {NotAnalysed,
                 [ai_category |-> "work", ai_sentiment |-> "negative",
                  ai_analyzed_at |-> 0]}]

StoreInit ==
    /\ Idle
    /\ tasks \in StoreTables
    /\ now = 1
    /\ args = <<>>
    /\ results = <<>>

\* One call update_task_in_db(task_id, category, sentiment), failing at `fail`.
StoreCall(task_id, labels, fail) ==
    /\ Len(results) < MaxCalls
    /\ LET r == update_task_in_db(tasks, task_id, labels[1], labels[2], now, fail)
       IN  /\ tasks' = r.table
           /\ results' = Append(results,
                  [task_id |-> task_id, category |-> labels[1],
                   sentiment |-> labels[2], fail |-> fail,
                   before |-> tasks, after |-> r.table, ret |-> r.ret,
                   raised |-> r.raised, opened |-> r.opened, closed |-> r.closed])
    /\ now' = now + 1
    /\ args' = <<task_id, labels[1], labels[2]>>
    /\ UNCHANGED consumerVars

StoreNext ==
    \E task_id \in CallIds, labels \in CallLabels, fail \in DbFailPoints :
        StoreCall(task_id, labels, fail)

StoreSpec == StoreInit /\ [][StoreNext]_vars

\* ------------------------------------------------ analyze_task, called directly
\* str.upper(), used to write the inputs in other casings
upper_char(c) ==
    IF \E i \in 1..26 : LowerCase[i] = c
    THEN UpperCase[CHOOSE i \in 1..26 : LowerCase[i] = c]
    ELSE c
upper(text) == [i \in 1..Len(text) |-> upper_char(text[i])]

KeywordSets == {"urgent", "work", "personal"}
KeywordsOf(set) ==
    CASE set = "urgent" -> urgent_keywords
      [] set = "work" -> work_keywords
      [] set = "personal" -> personal_keywords

\* A title or a description: a text without any keyword ("" or "milk"), or one
\* keyword of one list written in lower case ("asap"), in upper case ("ASAP")
\* or capitalised inside other text ("a Asaps").
TextChoices ==
    [set : {"none"}, kw : {<<>>, <<"m","i","l","k">>}, form : {"lower"}]
    \cup UNION { [set : {g}, kw : KeywordsOf(g), form : {"lower", "upper", "inside"}]
                 : g \in KeywordSets }

TextOf(c) ==
    CASE c.form = "lower" -> c.kw
      [] c.form = "upper" -> upper(c.kw)
      [] c.form = "inside" ->
            <<"a", " ", upper_char(c.kw[1])>> \o Tail(c.kw) \o <<"s">>

\* TextBlob's polarity lies in [-1.0, 1.0]; in hundredths
PolarityRange == (0 - 100)..100

\* The inputs of one run: a (title, description) pair for analyze_task, with the
\* lists its keywords were taken from, or a polarity score for the thresholds.
ClassifyInputs ==
    { [kind |-> "text", title |-> TextOf(tc), description |-> TextOf(dc),
       has |-> {tc.set, dc.set} \ {"none"}, p |-> 0]
      : tc \in TextChoices, dc \in TextChoices }
    \cup { [kind |-> "score", title |-> <<>>, description |-> <<>>, has |-> {}, p |-> q]
           : q \in PolarityRange }

ClassifyInit ==
    /\ Idle
    /\ tasks = [r \in TaskIds |-> NotAnalysed]
    /\ now = 1
    /\ args \in ClassifyInputs
    /\ results = <<>>

\* category, sentiment = self.analyze_task(title, description)
Analyze ==
    /\ args.kind = "text"
    /\ Len(results) < MaxCalls
    /\ LET labels == analyze_task(args.title, args.description)
       IN  results' = Append(results,
              [category |-> labels[1], sentiment |-> labels[2]])
    /\ UNCHANGED <<consumerVars, storeVars, args>>

\* the sentiment branch of analyze_task for a text whose polarity is args.p
Score ==
    /\ args.kind = "score"
    /\ Len(results) < MaxCalls
    /\ results' = Append(results,
          [category |-> None, sentiment |-> sentiment_of(args.p)])
    /\ UNCHANGED <<consumerVars, storeVars, args>>

ClassifyNext ==
    \/ Analyze
    \/ Score

ClassifySpec == ClassifyInit /\ [][ClassifyNext]_vars

\* ================================================================ claims
Tags == 1..Len(dlv)

\* process_message has ended for delivery t, by returning or by raising
Finished(t) == dlv[t].st \in {"returned", "raised"}

\* the message is still held by the broker, ready or delivered and unsettled
InQueue(b) == b \in ready \/ \E t \in unacked : dlv[t].body = b

\* the body parses to a dict that has no key task_id
MissingTaskId(b) ==
    /\ json_loads(b).kind = "dict"
    /\ "task_id" \notin DOMAIN json_loads(b).val

\* connections of this consumer that are open
OpenConnections == leaked + (IF connection = "open" THEN 1 ELSE 0)

\* C1: a delivery for which update_task_in_db returned False is never
\* acknowledged, and its handler nacks it once with requeue=True.
C1_FailedUpdateIsNacked ==
    \A t \in Tags :
        dlv[t].res = "fail" =>
            /\ dlv[t].acks = 0
            /\ Finished(t) => (dlv[t].nacks = 1 /\ dlv[t].requeue)

\* C2 (as stated): a delivery whose body deserialized and whose update succeeded
\* is, once its handler has ended, acknowledged exactly once and never nacked.
C2_SuccessAckedOnce ==
    \A t \in Tags :
        (dlv[t].res = "ok" /\ Finished(t)) =>
            (dlv[t].acks = 1 /\ ~dlv[t].ackErr /\ dlv[t].nacks = 0)

\* C2 (amended): for a delivery whose body deserialized and whose update
\* succeeded, basic_ack is called at most once; if the channel is open at that
\* call the delivery is acknowledged exactly once, never nacked, and its message
\* leaves the queue; basic_nack is called for it only after basic_ack raised on
\* a channel that stop() or the broker had closed.
C2_SuccessAckedOnceWhileOpen ==
    \A t \in Tags :
        dlv[t].res = "ok" =>
            /\ dlv[t].acks <= 1
            /\ dlv[t].nacks > 0 => dlv[t].ackErr
            /\ (Finished(t) /\ ~dlv[t].ackErr) =>
                   /\ dlv[t].acks = 1
                   /\ dlv[t].nacks = 0
                   /\ t \notin unacked
                   /\ ~InQueue(dlv[t].body)

C2_Witness ==
    \E t \in Tags : dlv[t].res = "ok" /\ dlv[t].st = "returned" /\ dlv[t].acks = 1

\* C3: a delivery whose body fails deserialization is never acknowledged and no
\* update is made for it; its handler ends with one basic_nack with
\* requeue=True; its message never leaves the queue.  This holds for every
\* delivery of the message, the first and each redelivery.
C3_UndecodableIsNacked ==
    \A t \in Tags :
        json_loads(dlv[t].body).kind = "raise" =>
            /\ dlv[t].acks = 0
            /\ dlv[t].res = "none"
            /\ Finished(t) => (dlv[t].nacks = 1 /\ dlv[t].requeue)
            /\ InQueue(dlv[t].body)

\* an undecodable message was delivered, nacked, redelivered and nacked again
C3_Witness ==
    /\ Len(dlv) >= 2
    /\ \A t \in 1..2 : /\ json_loads(dlv[t].body).kind = "raise"
                       /\ dlv[t].st = "returned"
                       /\ dlv[t].nacks = 1

\* C4: a delivery whose body is a dict without task_id is never acknowledged, no
\* update is committed for it, and its handler nacks it with requeue=True.
C4_MissingTaskIdIsNacked ==
    \A t \in Tags :
        MissingTaskId(dlv[t].body) =>
            /\ dlv[t].acks = 0
            /\ dlv[t].res # "ok"
            /\ Finished(t) => (dlv[t].nacks = 1 /\ dlv[t].requeue)

\* C5: no failure inside process_message leaves the handler: start_consuming is
\* never ended by an exception that process_message let through.
C5_NoFailureEscapesHandler ==
    /\ consumeEnd # "handler"
    /\ \A t \in Tags : dlv[t].st # "raised"

\* C6: connect_rabbitmq makes at most max_retries attempts; it returns ready at
\* the first attempt that succeeds (every earlier one failed) and attempts
\* nothing more; it returns exhausted after exactly max_retries failed attempts;
\* it has slept once after every failed attempt but the last of the budget.
C6_BoundedRetries ==
    /\ tries <= max_retries
    /\ attempt <= max_retries
    /\ connectResult = "none" =>
           /\ pc \in {"new", "c_open", "c_channel", "c_declare"}
           /\ sleeps = attempt
           /\ tries = IF pc \in {"new", "c_open"} THEN attempt ELSE attempt + 1
    /\ connectResult = "ready" =>
           /\ pc \notin {"c_open", "c_channel", "c_declare"}
           /\ pc = "set_running" => (tries = attempt + 1 /\ sleeps = tries - 1)
    /\ connectResult = "exhausted" =>
           /\ attempt = max_retries
           /\ tries = max_retries
           /\ sleeps = max_retries - 1
           /\ pc \notin {"c_open", "c_channel", "c_declare"}

C6_Witness == connectResult = "exhausted" /\ tries = max_retries

\* C7: when all attempts failed, start() has returned with is_running False, no
\* QoS set, no handler registered and no message delivered; and as long as
\* connect_rabbitmq has not returned ready, is_running is False and /health
\* reports consumer_running false.
C7_ExhaustedNeverRuns ==
    /\ connectResult # "ready" => (~is_running /\ ~health_check)
    /\ connectResult = "exhausted" =>
           /\ pc = "done"
           /\ qos = 0
           /\ ~registered
           /\ Len(dlv) = 0
           /\ hpc = "idle"

C7_Witness == connectResult = "exhausted" /\ pc = "done" /\ stops > 0

\* C8: at most one delivery is unsettled at any time; the handler is registered
\* only after prefetch_count=1 was set; while a delivery is being handled no
\* other delivery is held by the client, and the one unsettled delivery is the
\* one being handled.
C8_OneInFlight ==
    /\ Cardinality(unacked) <= 1
    /\ registered => qos = 1
    /\ Len(buffer) + (IF hpc = "idle" THEN 0 ELSE 1) <= 1
    /\ hpc # "idle" => unacked \subseteq {cur}
    /\ Cardinality({t \in Tags : dlv[t].st = "running"}) <= 1

\* a second delivery is being handled after the first one was settled
C8_Witness ==
    /\ Len(dlv) = 2
    /\ dlv[1].st = "returned"
    /\ dlv[2].st = "running"
    /\ unacked = {2}

\* C9: no call of stop() raises, the first or a repeated one.
C9_StopNeverRaises == ~stopRaised

\* C10: the consumer never has more than one connection open, and after
\* connect_rabbitmq returned exhausted none is open or referenced.
C10_OneConnection ==
    /\ OpenConnections <= 1
    /\ (connectResult = "exhausted" /\ stops = 0) =>
           (OpenConnections = 0 /\ connection = None)

\* the labels of every row, the analysis timestamp left out
Labels(t) == [r \in DOMAIN t |-> <<t[r].ai_category, t[r].ai_sentiment>>]

Calls == 1..Len(results)

SameArgs(a, b) ==
    /\ a.task_id = b.task_id
    /\ a.category = b.category
    /\ a.sentiment = b.sentiment

\* C11: a call of update_task_in_db never changes a row with another id; and a
\* call repeated with the same task_id, category and sentiment after one that
\* succeeded leaves the labels of every row as that one left them.
C11_UpdateIdempotent ==
    /\ \A i \in Calls : \A r \in TaskIds :
           r # results[i].task_id => results[i].after[r] = results[i].before[r]
    /\ \A i \in Calls : i + 1 \in Calls =>
           ((SameArgs(results[i], results[i + 1]) /\ results[i].ret)
               => Labels(results[i + 1].after) = Labels(results[i].after))

\* the same update was made twice, both succeeded, and only the timestamp moved
C11_Witness ==
    /\ Len(results) >= 2
    /\ SameArgs(results[1], results[2])
    /\ results[1].ret /\ results[2].ret
    /\ results[1].task_id \in TaskIds
    /\ Labels(results[1].after) # Labels(results[1].before)
    /\ results[2].after # results[1].after

\* C12: update_task_in_db never raises; it returns True exactly when nothing
\* failed, also when no row has the id (the table is then unchanged); it
\* returns False when connect, execute, commit or close failed.
C12_UpdateNeverRaises ==
    \A i \in Calls :
        /\ ~results[i].raised
        /\ results[i].ret <=> (results[i].fail = "none")
        /\ (results[i].ret /\ results[i].task_id \notin TaskIds)
               => results[i].after = results[i].before
        /\ results[i].fail \in {"connect", "execute", "commit"}
               => results[i].after = results[i].before

\* a zero-row update that returned True, and a failed call that returned False
C12_Witness ==
    /\ \E i \in Calls : results[i].ret /\ results[i].task_id \notin TaskIds
    /\ \E i \in Calls : ~results[i].ret /\ results[i].fail = "execute"

\* C16: every call of update_task_in_db opens at most one store connection and
\* has closed it when it returns, whether it succeeded or failed.
C16_StoreConnectionReleased ==
    \A i \in Calls :
        /\ results[i].opened <= 1
        /\ results[i].closed = results[i].opened

\* the category the priority rule gives for keywords taken from the lists `has`
ByPriority(has) ==
    IF "urgent" \in has THEN "urgent"
    ELSE IF "work" \in has THEN "work"
    ELSE IF "personal" \in has THEN "personal"
    ELSE "general"

\* C13: analyze_task gives "urgent" when title or description holds an urgent
\* keyword in any casing, else "work" for a work keyword, else "personal" for a
\* personal keyword, else "general"; a repeated call gives the same result.
C13_CategoryByPriority ==
    args.kind = "text" =>
        /\ \A i \in Calls : results[i].category = ByPriority(args.has)
        /\ \A i \in Calls, j \in Calls : results[i] = results[j]

\* an urgent keyword in upper case in the description wins over a work keyword
\* in the title, on both of two calls
C13_Witness ==
    /\ args.kind = "text"
    /\ args.has = {"urgent", "work"}
    /\ args.title = <<"r","e","p","o","r","t">>
    /\ args.description = <<"A","S","A","P">>
    /\ Len(results) = 2
    /\ results[1].category = "urgent"

\* C14: a polarity above 0.1 gives "positive", one below -0.1 gives "negative",
\* and every polarity from -0.1 to 0.1, both ends included, gives "neutral".
C14_SentimentThresholds ==
    args.kind = "score" =>
        \A i \in Calls :
            /\ results[i].sentiment \in {"positive", "negative", "neutral"}
            /\ results[i].sentiment = "positive" <=> args.p > 10
            /\ results[i].sentiment = "negative" <=> args.p < 0 - 10
            /\ results[i].sentiment = "neutral" <=> (0 - 10 <= args.p /\ args.p <= 10)

\* a polarity of exactly 0.1 was scored neutral
C14_Witness ==
    /\ args.kind = "score"
    /\ args.p = 10
    /\ Len(results) > 0
    /\ results[1].sentiment = "neutral"

\* the handler is running on a delivery of b
Handling(b) == hpc = "run" /\ dlv[cur].body = b

\* the deliveries on record of messages whose handling raises leave them queued
MalformedStaysQueued ==
    \A t \in Tags :
        LoadRaises(dlv[t].body) =>
            /\ dlv[t].acks = 0
            /\ Finished(t) => (dlv[t].nacks = 1 /\ dlv[t].requeue /\ ~dlv[t].nackErr)
            /\ InQueue(dlv[t].body)

\* C15: while the consumer is consuming and is never stopped, a message whose
\* handling raises on every delivery stays in the queue, each of its deliveries
\* ends in one basic_nack with requeue=True, and under a fair broker it is
\* delivered to the handler again and again without end.
C15_MalformedRedeliveredForever ==
    /\ []MalformedStaysQueued
    /\ (pc = "consuming") ~> Handling("not_json")
    /\ (pc = "consuming") ~> Handling("json_list")

\* the other messages are gone and the undecodable one fills the whole record:
\* it has been delivered and nacked more often than the record is long
C15_Witness ==
    /\ pc = "consuming"
    /\ ~InQueue("task") /\ ~InQueue("no_task_id")
    /\ Len(dlv) = MaxDeliveries
    /\ \A t \in Tags : /\ dlv[t].body = "not_json"
                       /\ dlv[t].st = "returned"
                       /\ dlv[t].nacks = 1
                       /\ dlv[t].requeue

\* C17: connect_rabbitmq returns ready only from the queue declaration of an
\* attempt, which follows the channel creation of that attempt, which follows
\* its connection opening, and the queue is then declared durable; whenever
\* is_running is True, connection and channel are both set.
C17_ReadyAfterOpenChannelDeclare ==
    /\ [](is_running => (connection # None /\ channel # None))
    /\ [](connectResult = "ready" =>
            (declared = "durable" /\ connection # None /\ channel # None))
    /\ [](pc \in {"c_open", "c_channel"} => channel # "open")
    /\ [][(pc' = "c_channel" /\ pc # "c_channel")
            => (pc = "c_open" /\ connection' = "open")]_vars
    /\ [][(pc' = "c_declare" /\ pc # "c_declare")
            => (pc = "c_channel" /\ connection = "open" /\ channel' = "open")]_vars
    /\ [][(connectResult' = "ready" /\ connectResult # "ready")
            => (pc = "c_declare" /\ channel = "open" /\ declared' = "durable")]_vars

\* the consumer runs on the connection of a later attempt, after an attempt
\* that had opened a connection failed
C17_Witness ==
    /\ is_running
    /\ connectResult = "ready"
    /\ leaked > 0
    /\ connection = "open"
    /\ channel = "open"
    /\ declared = "durable"

\* start() has ended
Ended == pc \in {"done", "crashed"}

\* C18: when the consuming loop was interrupted or ended with any other error
\* and start() has ended, is_running is False, no consumer is registered and
\* the broker connection is closed.
C18_EveryEndStopsAndCloses ==
    (Ended /\ consumeEnd \in {"interrupt", "error", "handler"}) =>
        /\ ~is_running
        /\ ~registered
        /\ connection = "closed"

\* C19: once a call of stop() has returned, is_running is not True again and
\* no delivery is handed to process_message: is_running stays False
\* and no consumer is registered to receive deliveries.
C19_StoppedStaysStopped ==
    (stops > 0 /\ spc = "idle" /\ ~stopRaised) => (~is_running /\ ~registered)

\* C20: once start() has ended, by returning or by raising, is_running is False.
C20_EndedNotRunning == Ended => ~is_running

====
